---- MODULE Spec2Model ----
(***************************************************************************)
(* The feature heatmap pyramid plugin (main.py): stitching-vector parsing, *)
(* feature CSV parsing, feature scaling, heatmap tile generation and the   *)
(* output stitching vectors, as one sequential state machine.  The files   *)
(* being read are streamed: each read draws the next line from a small set.*)
(* A file dictionary is a function from its keys to their values; the      *)
(* pass-through stitching fields (correlation, position, grid) are left    *)
(* out, and feature names are taken distinct from the stitching keys.      *)
(***************************************************************************)
EXTENDS Integers, Sequences, FiniteSets, TLC

\* ------------------------------------------------------------- bounds
\* Stitching-vector files, lines per stitching vector, feature CSV files,
\* CSV rows over all files, and runs of the program on the same inputs.
MaxVectors == 1
MaxLines == 2
MaxCsv == 2
MaxRows == 2
MaxRuns == 2

\* ------------------------------------------------------------- inputs
\* Images that may be in the input collection, and one file that never is.
Images == {"A", "B"}
FileNames == Images \cup {"M"}
\* CSV cell texts: three that float() accepts and one that it does not.
Cells == {"0", "1", "4", "x"}
\* What _get_file_dict returns when no image matches.
None == "None"

VARIABLES
    index,          \* fp.iterate(): the image names of the collection, in order
    rec,            \* the file dictionary of every image: key -> value
    pc,             \* the statement the program is at
    err,            \* the exception that ended the run, "" when none
    vfile,          \* stitching vectors opened so far (the id of the open one)
    line_num,       \* _parse_stitch: line_num
    stitch_file,    \* stitch_groups['file'] of the line parsed last
    filePos,        \* history: lines read from the open stitching vector
    misses,         \* history: lines of the open vector that matched no image
    widths,         \* unique_width
    heights,        \* unique_height
    csvs,           \* feature CSV files opened so far
    headers,        \* the feature columns of the open CSV, in header order
    line,           \* _parse_features: line, the row read last ('' at the end)
    p_file,         \* p_line['file'] of the group being read
    p_nums,         \* the columns of p_line that hold a list, with their list
    run,            \* history: the cells of every row of the group being read
    textCols,       \* history: columns where get_number dropped a cell
    rowsRead,       \* rows read from the CSV files so far
    feature_keys,   \* the keys of feature_list, in insertion order
    feature_list,   \* feature_list: feature -> the means collected
    unique_levels,  \* unique_levels
    vmStarts,       \* jutil.start_vm calls of this run
    vmKills,        \* jutil.kill_vm calls of this run
    todo,           \* the (w, h, l) keys the generation loops have yet to visit
    tiles,          \* the tile files at the outImages location
    writes,         \* history: tile key -> BioWriter writes of it, over all runs
    runs,           \* runs of the program so far, this one included
    firstRunTiles,  \* history: the tile files the first complete run left
    outIdx,         \* output vectors written in this run
    out             \* the output stitching vectors: feature -> its lines

stitchVars == <<vfile, line_num, stitch_file, filePos, misses, widths, heights>>

csvVars == <<csvs, headers, line, p_file, p_nums, run, textCols, rowsRead,
             feature_keys, feature_list>>

genVars == <<vmStarts, vmKills, todo, tiles, writes, runs, firstRunTiles>>

outVars == <<outIdx, out>>

vars == <<index, rec, pc, err, stitchVars, csvVars, unique_levels, genVars,
          outVars>>

\* ------------------------------------------------------------ helpers
EmptyDict == [k \in {} |-> 0]

Put(d, k, v) == [x \in DOMAIN d \cup {k} |-> IF x = k THEN v ELSE d[x]]

Range(s) == {s[i] : i \in 1..Len(s)}

MinOf(S) == CHOOSE x \in S : \A y \in S : x <= y

MaxOf(S) == CHOOSE x \in S : \A y \in S : x >= y

RECURSIVE SumSeq(_)
SumSeq(s) == IF s = <<>> THEN 0 ELSE Head(s) + SumSeq(Tail(s))

RECURSIVE SortedSeq(_)
SortedSeq(S) == IF S = {} THEN <<>> ELSE <<MinOf(S)>> \o SortedSeq(S \ {MinOf(S)})

\* imagesize.get(file): (width, height) of an image of the collection.
ImageSize(img) == IF img = "A" THEN <<1, 3>> ELSE <<2, 4>>

\* _get_file_dict with the last record iterated returned when nothing matches.
GetFileDictLast(fp, fname) ==
    LET hits == {i \in 1..Len(fp) : fp[i] = fname}
    IN  IF hits # {} THEN fp[MinOf(hits)]
        ELSE IF Len(fp) = 0 THEN None ELSE fp[Len(fp)]

\* _get_file_dict: the first record whose file name is fname, else None.
GetFileDict(fp, fname) ==
    LET hits == {i \in 1..Len(fp) : fp[i] = fname}
    IN  IF hits # {} THEN fp[MinOf(hits)] ELSE None

\* line_num after a line, were it advanced for unmatched lines too.
NextLineNumAlways(found, n) == n + 1

\* line_num after a line: `continue` skips the increment of an unmatched line.
NextLineNum(found, n) == IF found THEN n + 1 ELSE n

\* get_number: whether float(s) succeeds, and its value.
IsFloat(s) == s \in {"0", "1", "4"}

Float(s) == CASE s = "0" -> 0 [] s = "1" -> 1 [] s = "4" -> 4

\* statistics.mean of a list of numbers (exact when the length divides the sum;
\* every list the parser builds holds one value).
Mean(s) == SumSeq(s) \div Len(s)

\* round(n / d), Python's: to the nearest integer, a tie to the even one.
RoundHalfEven(n, d) ==
    LET q == n \div d
        r == n % d
    IN  IF 2 * r < d THEN q
        ELSE IF 2 * r > d THEN q + 1
        ELSE IF q % 2 = 0 THEN q ELSE q + 1

\* The level with the scale stretched over 255 steps instead of 254.
LevelWide(v, mn, rng) ==
    IF rng = 0 THEN 0 ELSE RoundHalfEven((v - mn) * 255 + rng, rng)

\* Line 258, with line 261 for the ZeroDivisionError of a zero range:
\* round((v - min) / range * 254 + 1).
Level(v, mn, rng) ==
    IF rng = 0 THEN 0 ELSE RoundHalfEven((v - mn) * 254 + rng, rng)

\* The name of the tile file, with width and height in the wrong order.
TileFileSwapped(w, h, l) == <<h, w, l>>

\* Line 274: str(w) + '_' + str(h) + '_' + str(l) + '.ome.tif'.
TileFile(w, h, l) == <<w, h, l>>

\* Lines 287 and 297: '{}_{}_{}.ome.tif'.format(width, height, level).
VectorFileName(w, h, l) == <<w, h, l>>

\* The existence check left out.
ShouldWriteAlways(file, disk) == TRUE

\* Line 275: if not out_file.exists().
ShouldWrite(file, disk) == file \notin disk

\* ------------------------------------------------------------- Init
Indexes == {<<>>, <<"A">>, <<"A", "B">>}

\* The end of a CSV file: readline() returns ''.
EOF == [file |-> "", cells |-> EmptyDict]

Init ==
    /\ index \in Indexes
    /\ rec = [i \in Range(index) |-> EmptyDict]
    /\ pc = "stitch"
    /\ err = ""
    /\ vfile = 0
    /\ line_num = 0
    /\ stitch_file = ""
    /\ filePos = 0
    /\ misses = 0
    /\ widths = {}
    /\ heights = {}
    /\ csvs = 0
    /\ headers = <<>>
    /\ line = EOF
    /\ p_file = ""
    /\ p_nums = EmptyDict
    /\ run = <<>>
    /\ textCols = {}
    /\ rowsRead = 0
    /\ feature_keys = <<>>
    /\ feature_list = EmptyDict
    /\ unique_levels = {}
    /\ vmStarts = 0
    /\ vmKills = 0
    /\ todo = <<>>
    /\ tiles = {}
    /\ writes = EmptyDict
    /\ runs = 1
    /\ firstRunTiles = {}
    /\ outIdx = 0
    /\ out = EmptyDict

\* ------------------------------------------------- _parse_stitch
\* Lines 85-91.
OpenVector ==
    /\ pc = "stitch" /\ err = ""
    /\ vfile < MaxVectors
    /\ vfile' = vfile + 1
    /\ line_num' = 0
    /\ filePos' = 0
    /\ misses' = 0
    /\ pc' = "stitch_line"
    /\ UNCHANGED <<index, rec, err, stitch_file, widths, heights, csvVars,
                   unique_levels, genVars, outVars>>

\* Lines 94-95: re.match returns None for a line that is no stitching line,
\* and .groups() raises.
StitchLineMalformed ==
    /\ pc = "stitch_line" /\ err = ""
    /\ filePos < MaxLines
    /\ err' = "AttributeError"
    /\ UNCHANGED <<index, rec, pc, stitchVars, csvVars, unique_levels,
                   genVars, outVars>>

\* Lines 92-113: one line of the open stitching vector.
StitchLine(fname) ==
    /\ pc = "stitch_line" /\ err = ""
    /\ filePos < MaxLines
    /\ LET current_image == GetFileDict(index, fname)
           found == current_image # None
       IN  /\ stitch_file' = fname
           /\ filePos' = filePos + 1
           /\ line_num' = NextLineNum(found, line_num)
           /\ IF ~found
              THEN /\ misses' = misses + 1
                   /\ UNCHANGED <<rec, widths, heights>>
              ELSE LET size == ImageSize(current_image)
                       d1 == Put(rec[current_image], "vector", vfile)
                       d2 == Put(d1, "line", line_num)
                       d3 == Put(d2, "width", size[1])
                       d4 == Put(d3, "height", size[2])
                   IN  /\ rec' = [rec EXCEPT ![current_image] = d4]
                       /\ widths' = widths \cup {size[1]}
                       /\ heights' = heights \cup {size[2]}
                       /\ UNCHANGED misses
    /\ UNCHANGED <<index, pc, err, vfile, csvVars, unique_levels, genVars,
                   outVars>>

\* The end of the open stitching vector (its counters are dead from here on).
EofVector ==
    /\ pc = "stitch_line" /\ err = ""
    /\ pc' = "stitch"
    /\ line_num' = 0
    /\ stitch_file' = ""
    /\ filePos' = 0
    /\ misses' = 0
    /\ UNCHANGED <<index, rec, err, vfile, widths, heights, csvVars,
                   unique_levels, genVars, outVars>>

\* Line 121.
StitchDone ==
    /\ pc = "stitch" /\ err = ""
    /\ pc' = "features"
    /\ UNCHANGED <<index, rec, err, stitchVars, csvVars, unique_levels,
                   genVars, outVars>>

\* ------------------------------------------------- _parse_features
\* The header rows a CSV may have: "file" and at most one feature column.
Headers == {<<>>, <<"area">>, <<"label">>}

Rows(hdr) == {[file |-> f, cells |-> c] : f \in FileNames, c \in [Range(hdr) -> Cells]}

\* fr.readline(): the next row of the open CSV, or '' at its end.
ReadLine(hdr) ==
    \E l \in {EOF} \cup (IF rowsRead < MaxRows THEN Rows(hdr) ELSE {}) :
        /\ line' = l
        /\ rowsRead' = IF l = EOF THEN rowsRead ELSE rowsRead + 1

\* Lines 166-169: the columns of a row whose cell get_number turns into a list.
NumberCols(cells) == {c \in DOMAIN cells : IsFloat(cells[c])}

\* Lines 146-158.
OpenCsv ==
    /\ pc = "features" /\ err = ""
    /\ csvs < MaxCsv
    /\ \E hdr \in Headers :
        LET new == SelectSeq(hdr, LAMBDA k : k \notin Range(feature_keys))
        IN  /\ headers' = hdr
            /\ feature_keys' = feature_keys \o new
            /\ feature_list' = [k \in Range(feature_keys) \cup Range(new) |->
                                  IF k \in Range(feature_keys)
                                  THEN feature_list[k] ELSE <<>>]
            /\ ReadLine(hdr)
    /\ csvs' = csvs + 1
    /\ pc' = "csv_outer"
    /\ UNCHANGED <<index, rec, err, stitchVars, p_file, p_nums, run, textCols,
                   unique_levels, genVars, outVars>>

\* Lines 163-180: the first row of a group.
GroupStart ==
    /\ pc = "csv_outer" /\ err = ""
    /\ line # EOF
    /\ LET current_image == GetFileDict(index, line.file)
       IN  IF current_image = None
           THEN /\ ReadLine(headers)
                /\ UNCHANGED <<pc, p_file, p_nums, run, textCols>>
           ELSE /\ p_file' = current_image
                /\ p_nums' = [c \in NumberCols(line.cells) |->
                                <<Float(line.cells[c])>>]
                /\ run' = <<line.cells>>
                /\ textCols' = textCols \cup
                                 (DOMAIN line.cells \ NumberCols(line.cells))
                /\ ReadLine(headers)
                /\ pc' = "csv_inner"
    /\ UNCHANGED <<index, rec, err, stitchVars, csvs, headers, feature_keys,
                   feature_list, unique_levels, genVars, outVars>>

\* Lines 181-192: a further row of the group.  float(val) is applied to the
\* list itself, which raises TypeError as soon as one column holds a list.
GroupRow ==
    /\ pc = "csv_inner" /\ err = ""
    /\ line # EOF
    /\ line.file = p_file
    /\ run' = Append(run, line.cells)
    /\ IF DOMAIN p_nums # {}
       THEN /\ err' = "TypeError"
            /\ UNCHANGED <<line, rowsRead>>
       ELSE /\ ReadLine(headers)
            /\ UNCHANGED err
    /\ UNCHANGED <<index, rec, pc, stitchVars, csvs, headers, p_file, p_nums,
                   textCols, feature_keys, feature_list, unique_levels,
                   genVars, outVars>>

\* Lines 194-198: the means of the group go to the record and to feature_list
\* (p_line is dead from here on).
GroupEnd ==
    /\ pc = "csv_inner" /\ err = ""
    /\ line = EOF \/ line.file # p_file
    /\ rec' = [rec EXCEPT ![p_file] =
                 [k \in DOMAIN @ \cup DOMAIN p_nums |->
                    IF k \in DOMAIN p_nums THEN Mean(p_nums[k]) ELSE @[k]]]
    /\ feature_list' = [k \in DOMAIN feature_list |->
                          IF k \in DOMAIN p_nums
                          THEN Append(feature_list[k], Mean(p_nums[k]))
                          ELSE feature_list[k]]
    /\ p_file' = ""
    /\ p_nums' = EmptyDict
    /\ run' = <<>>
    /\ pc' = "csv_outer"
    /\ UNCHANGED <<index, err, stitchVars, csvs, headers, line, textCols,
                   rowsRead, feature_keys, unique_levels, genVars, outVars>>

\* Line 163 at the end of the file (its header is dead from here on).
CsvEof ==
    /\ pc = "csv_outer" /\ err = ""
    /\ line = EOF
    /\ pc' = "features"
    /\ headers' = <<>>
    /\ UNCHANGED <<index, rec, err, stitchVars, csvs, line, p_file, p_nums,
                   run, textCols, rowsRead, feature_keys, feature_list,
                   unique_levels, genVars, outVars>>

\* Line 206.
FeaturesDone ==
    /\ pc = "features" /\ err = ""
    /\ pc' = "scale"
    /\ UNCHANGED <<index, rec, err, stitchVars, csvVars, unique_levels,
                   genVars, outVars>>

\* ------------------------------------------------- feature scaling
\* Lines 255-256: the (record, feature) pairs in the order the loops visit them.
ScalePairs ==
    [k \in 1..(Len(index) * Len(feature_keys)) |->
        <<index[((k - 1) \div Len(feature_keys)) + 1],
          feature_keys[((k - 1) % Len(feature_keys)) + 1]>>]

\* Lines 252-253.
FeatureMin(ft) == MinOf(Range(feature_list[ft]))

FeatureRange(ft) == MaxOf(Range(feature_list[ft])) - FeatureMin(ft)

\* Lines 255-262 from pair k on: the records and levels when the loops end,
\* or when fl[ft] raises KeyError for a record without the feature.
RECURSIVE ScaleFrom(_, _, _)
ScaleFrom(k, r, lv) ==
    IF k > Len(ScalePairs) THEN [rec |-> r, levels |-> lv, err |-> ""]
    ELSE LET fl == ScalePairs[k][1]
             ft == ScalePairs[k][2]
         IN  IF ft \notin DOMAIN r[fl]
             THEN [rec |-> r, levels |-> lv, err |-> "KeyError"]
             ELSE LET l == Level(r[fl][ft], FeatureMin(ft), FeatureRange(ft))
                  IN  ScaleFrom(k + 1, [r EXCEPT ![fl] = Put(@, ft, l)],
                                lv \cup {l})

\* Lines 249-262.  min() of an empty list raises ValueError.
Scale ==
    /\ pc = "scale" /\ err = ""
    /\ IF \E ft \in Range(feature_keys) : feature_list[ft] = <<>>
       THEN /\ err' = "ValueError"
            /\ UNCHANGED <<rec, pc, unique_levels>>
       ELSE LET res == ScaleFrom(1, rec, {})
            IN  /\ rec' = res.rec
                /\ unique_levels' = res.levels
                /\ err' = res.err
                /\ pc' = IF res.err = "" THEN "vm" ELSE pc
    /\ UNCHANGED <<index, stitchVars, csvVars, genVars, outVars>>

\* ------------------------------------------------- heatmap images
\* Lines 271-273: the keys of the three nested loops, in the order visited.
TileKeys ==
    LET ws == SortedSeq(widths)
        hs == SortedSeq(heights)
        ls == SortedSeq(unique_levels)
        nh == Len(hs)
        nl == Len(ls)
    IN  [k \in 1..(Len(ws) * nh * nl) |->
            <<ws[((k - 1) \div (nh * nl)) + 1],
              hs[(((k - 1) \div nl) % nh) + 1],
              ls[((k - 1) % nl) + 1]>>]

\* Line 267.
StartVM ==
    /\ pc = "vm" /\ err = ""
    /\ vmStarts' = vmStarts + 1
    /\ todo' = TileKeys
    /\ pc' = "images"
    /\ UNCHANGED <<index, rec, err, stitchVars, csvVars, unique_levels,
                   vmKills, tiles, writes, runs, firstRunTiles, outVars>>

\* Lines 274-275: the tile file exists already.
TileSkip ==
    /\ pc = "images" /\ err = ""
    /\ todo # <<>>
    /\ ~ShouldWrite(TileFile(Head(todo)[1], Head(todo)[2], Head(todo)[3]), tiles)
    /\ todo' = Tail(todo)
    /\ UNCHANGED <<index, rec, pc, err, stitchVars, csvVars, unique_levels,
                   vmStarts, vmKills, tiles, writes, runs, firstRunTiles,
                   outVars>>

\* Lines 276-279: the tile is written.
TileWrite ==
    /\ pc = "images" /\ err = ""
    /\ todo # <<>>
    /\ LET file == TileFile(Head(todo)[1], Head(todo)[2], Head(todo)[3])
       IN  /\ ShouldWrite(file, tiles)
           /\ tiles' = tiles \cup {file}
           /\ writes' = Put(writes, file,
                            IF file \in DOMAIN writes THEN writes[file] + 1 ELSE 1)
    /\ todo' = Tail(todo)
    /\ UNCHANGED <<index, rec, pc, err, stitchVars, csvVars, unique_levels,
                   vmStarts, vmKills, runs, firstRunTiles, outVars>>

\* Lines 277-279: the tile writer raises; nothing catches it.
TileWriteFails ==
    /\ pc = "images" /\ err = ""
    /\ todo # <<>>
    /\ ShouldWrite(TileFile(Head(todo)[1], Head(todo)[2], Head(todo)[3]), tiles)
    /\ err' = "WriteError"
    /\ UNCHANGED <<index, rec, pc, stitchVars, csvVars, unique_levels,
                   genVars, outVars>>

\* Line 283.
KillVM ==
    /\ pc = "images" /\ err = ""
    /\ todo = <<>>
    /\ vmKills' = vmKills + 1
    /\ firstRunTiles' = IF runs = 1 THEN tiles ELSE firstRunTiles
    /\ outIdx' = 0
    /\ pc' = "output"
    /\ UNCHANGED <<index, rec, err, stitchVars, csvVars, unique_levels,
                   vmStarts, todo, tiles, writes, runs, out>>

\* ------------------------------------------------- output vectors
\* Lines 293-295: the first record whose line index is n.  f['line'] raises
\* KeyError for a record that matched no stitching line; when the loop ends
\* without a break, f is the last record (unbound for an empty collection).
RECURSIVE FindLine(_, _)
FindLine(i, n) ==
    IF i > Len(index)
    THEN IF Len(index) = 0 THEN [kind |-> "NameError", img |-> None]
         ELSE [kind |-> "none", img |-> None]
    ELSE IF "line" \notin DOMAIN rec[index[i]]
         THEN [kind |-> "KeyError", img |-> None]
         ELSE IF rec[index[i]]["line"] = n
              THEN [kind |-> "found", img |-> index[i]]
              ELSE FindLine(i + 1, n)

\* Lines 291-305: the lines of the vector of feature feat from line index n on.
RECURSIVE VectorLines(_, _, _)
VectorLines(feat, n, acc) ==
    LET f == FindLine(1, n)
    IN  IF f.kind = "none" THEN [lines |-> acc, err |-> ""]
        ELSE IF f.kind # "found" THEN [lines |-> acc, err |-> f.kind]
        ELSE IF feat \notin DOMAIN rec[f.img]
             THEN [lines |-> acc, err |-> "KeyError"]
             ELSE VectorLines(feat, n + 1,
                              Append(acc, VectorFileName(rec[f.img]["width"],
                                                         rec[f.img]["height"],
                                                         rec[f.img][feat])))

\* Lines 288-305 for one feature.
WriteVector ==
    /\ pc = "output" /\ err = ""
    /\ outIdx < Len(feature_keys)
    /\ LET feat == feature_keys[outIdx + 1]
           res == VectorLines(feat, 0, <<>>)
       IN  /\ out' = Put(out, feat, res.lines)
           /\ err' = res.err
    /\ outIdx' = outIdx + 1
    /\ UNCHANGED <<index, rec, pc, stitchVars, csvVars, unique_levels, genVars>>

\* The end of the program.
OutputDone ==
    /\ pc = "output" /\ err = ""
    /\ outIdx = Len(feature_keys)
    /\ pc' = "done"
    /\ UNCHANGED <<index, rec, err, stitchVars, csvVars, unique_levels,
                   genVars, outVars>>

\* The program is run again on the same inputs and output locations: its
\* parsing and scaling give the same records, widths, heights and levels.
Rerun ==
    /\ pc = "done" /\ err = ""
    /\ runs < MaxRuns
    /\ runs' = runs + 1
    /\ vmStarts' = 0
    /\ vmKills' = 0
    /\ outIdx' = 0
    /\ pc' = "vm"
    /\ UNCHANGED <<index, rec, err, stitchVars, csvVars, unique_levels, todo,
                   tiles, writes, firstRunTiles, out>>

Next ==
    \/ OpenVector
    \/ StitchLineMalformed
    \/ \E fname \in FileNames : StitchLine(fname)
    \/ EofVector
    \/ StitchDone
    \/ OpenCsv
    \/ GroupStart
    \/ GroupRow
    \/ GroupEnd
    \/ CsvEof
    \/ FeaturesDone
    \/ Scale
    \/ StartVM
    \/ TileSkip
    \/ TileWrite
    \/ TileWriteFails
    \/ KillVM
    \/ WriteVector
    \/ OutputDone
    \/ Rerun

Spec == Init /\ [][Next]_vars
\* ------------------------------------------------------------ claims
\* The numbers among the cells of column c in the rows of a run.
RECURSIVE RunNums(_, _)
RunNums(rows, c) ==
    IF rows = <<>> THEN <<>>
    ELSE (IF IsFloat(Head(rows)[c]) THEN <<Float(Head(rows)[c])>> ELSE <<>>)
         \o RunNums(Tail(rows), c)

\* The program is past feature scaling.
Scaled == pc \in {"vm", "images", "output", "done"}

\* C1: reading a contiguous run of rows of an indexed file raises nothing, and
\* when the run ends the record's value of every column is the arithmetic mean
\* of the run's cells of that column that parse as numbers, and that mean is
\* appended to the feature's global list.
C1_RunMean ==
    [][(pc = "csv_inner" /\ err = "") =>
          /\ err' = ""
          /\ pc' = "csv_outer" =>
               \A c \in Range(headers) :
                  LET nums == RunNums(run, c)
                  IN  nums # <<>> =>
                        /\ c \in DOMAIN rec'[p_file]
                        /\ rec'[p_file][c] * Len(nums) = SumSeq(nums)
                        /\ feature_list'[c] =
                             Append(feature_list[c], rec'[p_file][c])]_vars

\* C2: when the program ends, the output vector of every feature has as many
\* lines as there are records that matched a stitching line and carry the
\* feature.
C2_LineCount ==
    pc = "done" =>
        \A f \in Range(feature_keys) :
            /\ f \in DOMAIN out
            /\ Len(out[f]) =
                 Cardinality({img \in Range(index) :
                                 /\ "line" \in DOMAIN rec[img]
                                 /\ f \in DOMAIN rec[img]})

\* C3: after scaling, the level of every feature a record carries is an
\* integer of 0..255, and it is 0 exactly when the feature's global range
\* (max - min of the collected values) is zero.
C3_LevelRange ==
    Scaled =>
        \A img \in Range(index) :
            \A f \in Range(feature_keys) \cap DOMAIN rec[img] :
                /\ rec[img][f] \in 0..255
                /\ rec[img][f] = 0 <=> FeatureRange(f) = 0

\* C3 witness: a feature of non-zero range scaled to both ends of the scale.
C3_Witness ==
    /\ pc = "vm"
    /\ index = <<"A", "B">>
    /\ "area" \in DOMAIN rec["A"] /\ rec["A"]["area"] = 1
    /\ "area" \in DOMAIN rec["B"] /\ rec["B"]["area"] = 255

\* C4: a cell that is no number never aborts the run: min() is never applied
\* to the empty list of a column whose cells were dropped.
C4_TextTolerated ==
    err = "ValueError" =>
        \A c \in Range(feature_keys) : feature_list[c] = <<>> => c \notin textCols

\* C5: over all runs the tile writer writes a key at most once, and a run
\* after a complete one leaves the set of tile files as it was.
C5_Idempotent ==
    /\ \A k \in DOMAIN writes : writes[k] <= 1
    /\ runs >= 2 => tiles = firstRunTiles

\* C5 witness: a second run has been through image generation with tiles on disk.
C5_Witness == runs = 2 /\ pc = "output" /\ tiles # {}

\* C6: the runtime is started exactly once before the first tile write and
\* shut down exactly once after the last one, also in a run where a tile write
\* fails part-way.  (imagesize.get, the one image read, parses the file header
\* in Python and goes through no runtime; it runs during stitching, before
\* start_vm.)
C6_Lifecycle ==
    /\ pc = "images" => vmStarts = 1
    /\ vmKills > 0 => vmKills = 1 /\ todo = <<>>
    /\ (pc = "done" \/ err = "WriteError") => vmStarts = 1 /\ vmKills = 1

\* C7: a stitching line, or the first row of a CSV group, that names a file
\* outside the index changes no record, no width or height set and no feature
\* list, raises nothing, and the parser goes on to the next line.
C7_MissNoEffect ==
    [][/\ (pc = "stitch_line" /\ filePos' = filePos + 1
             /\ stitch_file' \notin Range(index)) =>
            /\ rec' = rec /\ widths' = widths /\ heights' = heights
            /\ feature_list' = feature_list
            /\ err' = "" /\ pc' = "stitch_line"
       /\ (pc = "csv_outer" /\ err = "" /\ line # EOF
             /\ line.file \notin Range(index)) =>
            /\ rec' = rec /\ widths' = widths /\ heights' = heights
            /\ feature_list' = feature_list
            /\ err' = "" /\ pc' = "csv_outer"]_vars

\* C7 witness: the open vector had a line for a file outside the index and a
\* later line that matched.
C7_Witness ==
    /\ pc = "stitch_line" /\ misses = 1 /\ filePos = 2
    /\ stitch_file \in Range(index)
    /\ "line" \in DOMAIN rec[stitch_file]

\* C8: scaling raises nothing for a record that carries no value of a feature.
C8_ScaleSkipsAbsent == ~(pc = "scale" /\ err = "KeyError")

\* C9 as stated: the line index attached to a matched record is the zero-based
\* position of the line in its vector file.
C9_LineIsFilePosition ==
    [][(pc = "stitch_line" /\ filePos' = filePos + 1
          /\ stitch_file' \in Range(index)) =>
            rec'[stitch_file']["line"] = filePos]_vars

\* C9 amended: the line index attached to a matched record is the number of
\* earlier lines of its vector file that matched an image of the index (its
\* position less the earlier lines naming a file outside the index).
C9_LineCountsMatches ==
    [][(pc = "stitch_line" /\ filePos' = filePos + 1
          /\ stitch_file' \in Range(index)) =>
            /\ "line" \in DOMAIN rec'[stitch_file']
            /\ rec'[stitch_file']["line"] = filePos - misses
            /\ rec'[stitch_file']["vector"] = vfile]_vars

\* C9 witness: a line matched after a line naming a file outside the index.
C9_Witness ==
    /\ pc = "stitch_line" /\ misses = 1 /\ filePos = 2
    /\ stitch_file \in Range(index)
    /\ rec[stitch_file]["line"] = 0

\* C10: when the program ends, every tile name on a line of an output vector
\* is a tile file at the output location, of a generated width, height and
\* level.
C10_NamesExist ==
    pc = "done" =>
        \A f \in DOMAIN out :
            \A i \in 1..Len(out[f]) :
                /\ out[f][i] \in tiles
                /\ out[f][i] \in {TileFile(w, h, l) :
                                    w \in widths, h \in heights, l \in unique_levels}

\* C10 witness: the program ended with an output vector of two lines.
C10_Witness == pc = "done" /\ \E f \in DOMAIN out : Len(out[f]) = 2
====
